---- MODULE Spec2Model ----
(***************************************************************************)
(* Model of amethyst_animation/src/material.rs: the MaterialTextureSet     *)
(* registry (index <-> texture handle) and the AnimationSampling           *)
(* implementation for Material (apply_sample / current_sample).            *)
(***************************************************************************)
EXTENDS Integers, Sequences, FiniteSets, TLC

\* ------------------------------------------------------------------ bounds
\* usize indices 0..MaxIndex are used as registry keys
MaxIndex == 1
\* number of apply_sample calls made on the target
MaxApply == 1

Index == 0..MaxIndex
\* Handle<Texture> values are opaque references: two distinct ones, enough for
\* a handle to be displaced by another and to be bound under two indices
Handles == {"h1", "h2"}

\* ------------------------------------------------------- Option and HashMap
None == << >>
Some(x) == << x >>

\* a panic!() unwinds the call: the call has no result
Panic == << >>
Ok(x) == << x >>

EmptyMap == << >>
MapGet(m, k) == IF k \in DOMAIN m THEN Some(m[k]) ELSE None
MapInsert(m, k, v) == [x \in (DOMAIN m) \cup {k} |-> IF x = k THEN v ELSE m[x]]
MapRemove(m, k) == [x \in (DOMAIN m) \ {k} |-> m[x]]

\* ------------------------------------------------------ MaterialTextureSet
VARIABLES textures, texture_inverse, material, applied, panicked, last

vars == << textures, texture_inverse, material, applied, panicked, last >>

\* the registry as one value (the struct MaterialTextureSet)
MaterialTextureSet(t, inv) == [textures |-> t, texture_inverse |-> inv]

extra == MaterialTextureSet(textures, texture_inverse)

new == MaterialTextureSet(EmptyMap, EmptyMap)

handle(s, i) == MapGet(s.textures, i)

index(s, h) == MapGet(s.texture_inverse, h)

\* insert that forgets the inverse map
insert_forward_only(s, i, h) ==
    MaterialTextureSet(MapInsert(s.textures, i, h), s.texture_inverse)

\* insert that also evicts the inverse entry of the handle it displaces
insert_evict(s, i, h) ==
    LET inv == IF MapGet(s.textures, i) # None
               THEN MapRemove(s.texture_inverse, s.textures[i])
               ELSE s.texture_inverse
    IN  MaterialTextureSet(MapInsert(s.textures, i, h), MapInsert(inv, h, i))

\* insert that keeps an existing inverse entry (entry().or_insert())
insert_keep_first(s, i, h) ==
    MaterialTextureSet(MapInsert(s.textures, i, h),
                       IF MapGet(s.texture_inverse, h) # None
                       THEN s.texture_inverse
                       ELSE MapInsert(s.texture_inverse, h, i))

insert(s, i, h) ==
    MaterialTextureSet(MapInsert(s.textures, i, h),
                       MapInsert(s.texture_inverse, h, i))

\* remove that forgets the inverse map
remove_forward_only(s, i) ==
    MaterialTextureSet(MapRemove(s.textures, i), s.texture_inverse)

remove(s, i) ==
    IF MapGet(s.textures, i) # None
    THEN MaterialTextureSet(MapRemove(s.textures, i),
                            MapRemove(s.texture_inverse, s.textures[i]))
    ELSE s

clear(s) == MaterialTextureSet(EmptyMap, EmptyMap)

\* -------------------------------------------- MaterialPrimitive and channels
Texture(i) == [kind |-> "Texture", i |-> i]
Offset(u, v) == [kind |-> "Offset", u |-> u, v |-> v]

TextureChannels ==
    {"AlbedoTexture", "EmissionTexture", "NormalTexture", "MetallicTexture",
     "RoughnessTexture", "AmbientOcclusionTexture", "CaveatTexture"}

OffsetChannels ==
    {"AlbedoOffset", "EmissionOffset", "NormalOffset", "MetallicOffset",
     "RoughnessOffset", "AmbientOcclusionOffset", "CaveatOffset"}

MaterialChannel == TextureChannels \cup OffsetChannels

TexturePrimitives == {Texture(i) : i \in Index}
\* the offset sample a clip feeds in (f32 pairs, written as integers)
OffsetPrimitives == {Offset(<<1, 2>>, <<3, 4>>)}
MaterialPrimitive == TexturePrimitives \cup OffsetPrimitives

offset(o) == Offset(o.u, o.v)

texture_offset(u, v) == [u |-> u, v |-> v]

\* ------------------------------------------------------------------ Material
\* the target before any sample is applied: every texture field holds the
\* same handle and every offset is TextureOffset::default()
DefaultOffset == texture_offset(<<0, 1>>, <<0, 1>>)
DefaultHandle == "h1"

InitMaterial ==
    [albedo |-> DefaultHandle, albedo_offset |-> DefaultOffset,
     emission |-> DefaultHandle, emission_offset |-> DefaultOffset,
     normal |-> DefaultHandle, normal_offset |-> DefaultOffset,
     metallic |-> DefaultHandle, metallic_offset |-> DefaultOffset,
     roughness |-> DefaultHandle, roughness_offset |-> DefaultOffset,
     ambient_occlusion |-> DefaultHandle, ambient_occlusion_offset |-> DefaultOffset,
     caveat |-> DefaultHandle, caveat_offset |-> DefaultOffset]

\* the field each channel names
FieldOf(channel) ==
    CASE channel = "AlbedoTexture" -> "albedo"
      [] channel = "AlbedoOffset" -> "albedo_offset"
      [] channel = "EmissionTexture" -> "emission"
      [] channel = "EmissionOffset" -> "emission_offset"
      [] channel = "NormalTexture" -> "normal"
      [] channel = "NormalOffset" -> "normal_offset"
      [] channel = "MetallicTexture" -> "metallic"
      [] channel = "MetallicOffset" -> "metallic_offset"
      [] channel = "RoughnessTexture" -> "roughness"
      [] channel = "RoughnessOffset" -> "roughness_offset"
      [] channel = "AmbientOcclusionTexture" -> "ambient_occlusion"
      [] channel = "AmbientOcclusionOffset" -> "ambient_occlusion_offset"
      [] channel = "CaveatTexture" -> "caveat"
      [] channel = "CaveatOffset" -> "caveat_offset"

Fields == {FieldOf(c) : c \in MaterialChannel}

\* the resolution written with unwrap(): an unbound index is fatal
SetTexture_unwrap(self, field, i, s) ==
    IF handle(s, i) # None
    THEN Ok([self EXCEPT ![field] = handle(s, i)[1]])
    ELSE Panic

\* `if let Some(handle) = extra.handle(i) { self.<field> = handle; }`
SetTexture(self, field, i, s) ==
    IF handle(s, i) # None
    THEN Ok([self EXCEPT ![field] = handle(s, i)[1]])
    ELSE Ok(self)

\* the two pairs stored in each other's place
SetOffset_swapped(self, field, u, v) ==
    Ok([self EXCEPT ![field] = texture_offset(v, u)])

\* `self.<field> = texture_offset(u, v)`
SetOffset(self, field, u, v) == Ok([self EXCEPT ![field] = texture_offset(u, v)])

\* the dispatch with `_ => {}` in place of `_ => panic!(..)`
apply_sample_lenient(self, channel, data, s) ==
    IF channel \in TextureChannels /\ data.kind = "Texture"
    THEN SetTexture(self, FieldOf(channel), data.i, s)
    ELSE IF channel \in OffsetChannels /\ data.kind = "Offset"
    THEN SetOffset(self, FieldOf(channel), data.u, data.v)
    ELSE Ok(self)

apply_sample(self, channel, data, s) ==
    CASE channel = "AlbedoTexture" /\ data.kind = "Texture" ->
            SetTexture(self, "albedo", data.i, s)
      [] channel = "EmissionTexture" /\ data.kind = "Texture" ->
            SetTexture(self, "emission", data.i, s)
      [] channel = "NormalTexture" /\ data.kind = "Texture" ->
            SetTexture(self, "normal", data.i, s)
      [] channel = "MetallicTexture" /\ data.kind = "Texture" ->
            SetTexture(self, "metallic", data.i, s)
      [] channel = "RoughnessTexture" /\ data.kind = "Texture" ->
            SetTexture(self, "roughness", data.i, s)
      [] channel = "AmbientOcclusionTexture" /\ data.kind = "Texture" ->
            SetTexture(self, "ambient_occlusion", data.i, s)
      [] channel = "CaveatTexture" /\ data.kind = "Texture" ->
            SetTexture(self, "caveat", data.i, s)
      [] channel = "AlbedoOffset" /\ data.kind = "Offset" ->
            SetOffset(self, "albedo_offset", data.u, data.v)
      [] channel = "EmissionOffset" /\ data.kind = "Offset" ->
            SetOffset(self, "emission_offset", data.u, data.v)
      [] channel = "NormalOffset" /\ data.kind = "Offset" ->
            SetOffset(self, "normal_offset", data.u, data.v)
      [] channel = "MetallicOffset" /\ data.kind = "Offset" ->
            SetOffset(self, "metallic_offset", data.u, data.v)
      [] channel = "RoughnessOffset" /\ data.kind = "Offset" ->
            SetOffset(self, "roughness_offset", data.u, data.v)
      [] channel = "AmbientOcclusionOffset" /\ data.kind = "Offset" ->
            SetOffset(self, "ambient_occlusion_offset", data.u, data.v)
      [] channel = "CaveatOffset" /\ data.kind = "Offset" ->
            SetOffset(self, "caveat_offset", data.u, data.v)
      [] OTHER -> Panic

\* the read written with unwrap_or(0): an unregistered handle reads as index 0
ReadTexture_default(self, field, s) ==
    IF index(s, self[field]) # None
    THEN Ok(Texture(index(s, self[field])[1]))
    ELSE Ok(Texture(0))

\* `MaterialPrimitive::Texture(extra.index(&self.<field>).unwrap())`
ReadTexture(self, field, s) ==
    IF index(s, self[field]) # None
    THEN Ok(Texture(index(s, self[field])[1]))
    ELSE Panic

current_sample(self, channel, s) ==
    CASE channel = "AlbedoTexture" -> ReadTexture(self, "albedo", s)
      [] channel = "EmissionTexture" -> ReadTexture(self, "emission", s)
      [] channel = "NormalTexture" -> ReadTexture(self, "normal", s)
      [] channel = "MetallicTexture" -> ReadTexture(self, "metallic", s)
      [] channel = "RoughnessTexture" -> ReadTexture(self, "roughness", s)
      [] channel = "AmbientOcclusionTexture" -> ReadTexture(self, "ambient_occlusion", s)
      [] channel = "CaveatTexture" -> ReadTexture(self, "caveat", s)
      [] channel = "AlbedoOffset" -> Ok(offset(self.albedo_offset))
      [] channel = "EmissionOffset" -> Ok(offset(self.emission_offset))
      [] channel = "NormalOffset" -> Ok(offset(self.normal_offset))
      [] channel = "MetallicOffset" -> Ok(offset(self.metallic_offset))
      [] channel = "RoughnessOffset" -> Ok(offset(self.roughness_offset))
      [] channel = "AmbientOcclusionOffset" -> Ok(offset(self.ambient_occlusion_offset))
      [] channel = "CaveatOffset" -> Ok(offset(self.caveat_offset))

\* ------------------------------------------------------------------- actions
Init ==
    /\ textures = new.textures
    /\ texture_inverse = new.texture_inverse
    /\ material = InitMaterial
    /\ applied = 0
    /\ panicked = FALSE
    /\ last = [op |-> "new"]

\* the owning application registers a texture
Insert(i, h) ==
    /\ ~panicked
    /\ \E s \in {insert(extra, i, h)} :
          /\ textures' = s.textures
          /\ texture_inverse' = s.texture_inverse
    /\ last' = [op |-> "insert", index |-> i, handle |-> h]
    /\ UNCHANGED << material, applied, panicked >>

\* the owning application unregisters an index
Remove(i) ==
    /\ ~panicked
    /\ \E s \in {remove(extra, i)} :
          /\ textures' = s.textures
          /\ texture_inverse' = s.texture_inverse
    /\ last' = [op |-> "remove", index |-> i, removed |-> handle(extra, i)]
    /\ UNCHANGED << material, applied, panicked >>

Clear ==
    /\ ~panicked
    /\ \E s \in {clear(extra)} :
          /\ textures' = s.textures
          /\ texture_inverse' = s.texture_inverse
    /\ last' = [op |-> "clear"]
    /\ UNCHANGED << material, applied, panicked >>

\* the scheduler writes one sample to the target
ApplySample(channel, data) ==
    /\ ~panicked
    /\ applied < MaxApply
    /\ \E r \in {apply_sample(material, channel, data, extra)} :
          /\ panicked' = (r = Panic)
          /\ material' = IF r = Panic THEN material ELSE r[1]
    /\ applied' = applied + 1
    /\ last' = [op |-> "apply_sample", channel |-> channel, data |-> data]
    /\ UNCHANGED << textures, texture_inverse >>

\* the scheduler reads one channel of the target
CurrentSample(channel) ==
    /\ ~panicked
    /\ \E r \in {current_sample(material, channel, extra)} :
          /\ panicked' = (r = Panic)
          /\ last' = [op |-> "current_sample", result |-> r]
    /\ UNCHANGED << textures, texture_inverse, material, applied >>

Next ==
    \/ \E i \in Index, h \in Handles : Insert(i, h)
    \/ \E i \in Index : Remove(i)
    \/ Clear
    \/ \E c \in MaterialChannel, d \in MaterialPrimitive : ApplySample(c, d)
    \/ \E c \in MaterialChannel : CurrentSample(c)

Spec == Init /\ [][Next]_vars

\* The caller discipline of the registry: a handle is never inserted under an
\* index while the forward map binds it to a different index.
InsertDisciplined(i, h) ==
    /\ \A j \in Index : handle(extra, j) = Some(h) => j = i
    /\ Insert(i, h)

NextDisciplined ==
    \/ \E i \in Index, h \in Handles : InsertDisciplined(i, h)
    \/ \E i \in Index : Remove(i)
    \/ Clear
    \/ \E c \in MaterialChannel, d \in MaterialPrimitive : ApplySample(c, d)
    \/ \E c \in MaterialChannel : CurrentSample(c)

SpecDisciplined == Init /\ [][NextDisciplined]_vars

\* ---------------------------------------------------------------- properties
ShapeAgree(channel, data) ==
    \/ channel \in TextureChannels /\ data.kind = "Texture"
    \/ channel \in OffsetChannels /\ data.kind = "Offset"

\* index i is bound to r and no other index is bound to r
UniquelyBound(s, i, r) ==
    /\ handle(s, i) = Some(r)
    /\ \A j \in Index \ {i} : handle(s, j) # Some(r)

\* C1: in every reachable registry state the two maps are consistent:
\* forward[i] = r if and only if inverse[r] = i.
C1_Consistent ==
    \A i \in Index, r \in Handles :
        (handle(extra, i) = Some(r)) <=> (index(extra, r) = Some(i))

\* C2: from any reachable registry state, right after insert(i, r) the lookup
\* handle(i) returns r and the lookup index(r) returns i.
C2_InsertRoundTrip ==
    last.op = "insert" =>
        /\ handle(extra, last.index) = Some(last.handle)
        /\ index(extra, last.handle) = Some(last.index)

C2_Witness ==
    /\ last.op = "insert"
    /\ last.index = 1
    /\ handle(extra, 1) = Some("h2")
    /\ index(extra, "h2") = Some(1)
    /\ handle(extra, 0) # None

\* C3: from any reachable registry state, remove(i) of an index bound to r (as
\* it is right after insert(i, r)) leaves handle(i) and index(r) empty; remove(i)
\* of an unbound index changes neither map.
C3_Removal ==
    /\ last.op = "remove" =>
          /\ handle(extra, last.index) = None
          /\ last.removed # None => index(extra, last.removed[1]) = None
    /\ \A i \in Index : handle(extra, i) = None => remove(extra, i) = extra

C3_Witness ==
    /\ last.op = "remove"
    /\ last.removed # None
    /\ handle(extra, last.index) = None
    /\ index(extra, last.removed[1]) = None
    /\ textures # EmptyMap

\* C4: insert(i, r1) followed by insert(i, r2) with r1 # r2 makes handle(i)
\* return r2 while index(r1) still returns i, and index(r2) returns i.
C4_Overwrite ==
    [][ ( /\ last.op = "insert"
          /\ last'.op = "insert"
          /\ last'.index = last.index
          /\ last'.handle # last.handle ) =>
            /\ handle(extra', last.index) = Some(last'.handle)
            /\ index(extra', last.handle) = Some(last.index)
            /\ index(extra', last'.handle) = Some(last.index) ]_vars

C4_Witness ==
    /\ last.op = "insert"
    /\ handle(extra, last.index) = Some(last.handle)
    /\ index(extra, last.handle) = Some(last.index)
    /\ \E r1 \in Handles \ {last.handle} : index(extra, r1) = Some(last.index)

\* C5: whenever index i is bound to r and no other index is bound to r,
\* apply_sample on a *Texture channel with Texture(i) sets the channel's field
\* to r and a following current_sample on that channel returns Texture(i)
\* without reaching the fatal path.
C5_SampleRoundTrip ==
    \A c \in TextureChannels, i \in Index, r \in Handles :
        UniquelyBound(extra, i, r) =>
            LET a == apply_sample(material, c, Texture(i), extra)
            IN  /\ a # Panic
                /\ a[1][FieldOf(c)] = r
                /\ current_sample(a[1], c, extra) = Ok(Texture(i))

\* C6: apply_sample on a *Texture channel with an index that is unbound in the
\* forward map completes without a fatal error and leaves all 14 fields of the
\* target as they were.
C6_UnboundIsNoOp ==
    [][ ( /\ last'.op = "apply_sample"
          /\ last'.channel \in TextureChannels
          /\ last'.data.kind = "Texture"
          /\ handle(extra, last'.data.i) = None ) =>
            /\ ~panicked'
            /\ material' = material ]_vars

C6_Witness ==
    /\ last.op = "apply_sample"
    /\ last.channel \in TextureChannels
    /\ last.data.kind = "Texture"
    /\ handle(extra, last.data.i) = None
    /\ textures # EmptyMap
    /\ ~panicked
    /\ material = InitMaterial

\* C7: apply_sample reaches the fatal path for each of the 14 shape-mismatched
\* (channel, primitive) combinations and for none of the shape-agreeing ones,
\* whatever the registry contains.
C7_ShapeMismatchFatal ==
    last.op = "apply_sample" =>
        (panicked <=> ~ShapeAgree(last.channel, last.data))

C7_Witness ==
    /\ last.op = "apply_sample"
    /\ last.channel \in OffsetChannels
    /\ last.data.kind = "Texture"
    /\ handle(extra, last.data.i) # None
    /\ panicked

\* C8: current_sample on a *Texture channel reaches the fatal path exactly when
\* the handle held in the channel's field has no entry in the inverse map, and
\* otherwise returns Texture(k) for the inverse map's index k of that handle;
\* on a *Offset channel it never reaches the fatal path.  Stated of every call
\* the scheduler can make (a panicked run makes no further call), and of the
\* call that panicked.
C8_CurrentSampleFatal ==
    /\ ~panicked =>
          /\ \A c \in TextureChannels :
                LET k == index(extra, material[FieldOf(c)])
                    r == current_sample(material, c, extra)
                IN  IF k = None THEN r = Panic ELSE r = Ok(Texture(k[1]))
          /\ \A c \in OffsetChannels : current_sample(material, c, extra) # Panic
    /\ (last.op = "current_sample" /\ panicked) =>
          /\ last.result = Panic
          /\ \E c \in TextureChannels : index(extra, material[FieldOf(c)]) = None

C8_Witness ==
    /\ last.op = "current_sample"
    /\ panicked
    /\ DOMAIN texture_inverse = {"h2"}
    /\ \E c \in TextureChannels : material[FieldOf(c)] = "h2"

\* C9: a shape-agreeing apply_sample changes at most the field its channel
\* names (an offset field is overwritten with the primitive's two pairs); the
\* other 13 fields of the target and both registry maps are unchanged.
C9_Frame ==
    [][ (last'.op = "apply_sample" /\ ~panicked') =>
            /\ \A f \in Fields \ {FieldOf(last'.channel)} : material'[f] = material[f]
            /\ last'.channel \in OffsetChannels =>
                  material'[FieldOf(last'.channel)] =
                      [u |-> last'.data.u, v |-> last'.data.v]
            /\ textures' = textures
            /\ texture_inverse' = texture_inverse ]_vars

C9_Witness ==
    /\ last.op = "apply_sample"
    /\ last.channel \in OffsetChannels
    /\ ~panicked
    /\ material[FieldOf(last.channel)] = [u |-> <<1, 2>>, v |-> <<3, 4>>]
    /\ \A f \in Fields \ {FieldOf(last.channel)} : material[f] = InitMaterial[f]

\* C10: when a handle is never inserted under an index while the forward map
\* binds it to a different index, the forward map is injective and every bound
\* index i satisfies index(handle(i)) = i, stale inverse entries notwithstanding;
\* so every handle apply_sample can write resolves in a current_sample made
\* against the same registry.
C10_Disciplined ==
    /\ \A i \in DOMAIN textures, j \in DOMAIN textures :
          textures[i] = textures[j] => i = j
    /\ \A i \in DOMAIN textures : index(extra, textures[i]) = Some(i)
    /\ \A c \in TextureChannels, i \in DOMAIN textures :
          LET a == apply_sample(material, c, Texture(i), extra)
          IN  a # Panic /\ current_sample(a[1], c, extra) # Panic
    /\ ( /\ last.op = "apply_sample"
         /\ ~panicked
         /\ last.channel \in TextureChannels
         /\ handle(extra, last.data.i) # None ) =>
            current_sample(material, last.channel, extra) = Ok(last.data)

C10_Witness ==
    /\ last.op = "apply_sample"
    /\ ~panicked
    /\ last.channel \in TextureChannels
    /\ handle(extra, last.data.i) # None
    /\ material[FieldOf(last.channel)] = textures[last.data.i]
    /\ \E r \in DOMAIN texture_inverse :
          handle(extra, texture_inverse[r]) # Some(r)

====
